---- MODULE Spec2Model ----
(***************************************************************************)
(* Event ingestion and query layer of the GitHub Actions integration:      *)
(*   webhook_server.py  handle_webhook   (the only writer of the store)    *)
(*   server.py          get_recent_actions_events, get_workflow_status     *)
(* The two run as separate processes; github_events.json is the only       *)
(* state they share.                                                       *)
(***************************************************************************)
EXTENDS Integers, Sequences, FiniteSets, TLC

VARIABLES
    file,      \* github_events.json: whether it exists and the text on disk
    clock,     \* datetime.now() of the webhook process
    reqs,      \* webhook requests in order of arrival, each with its position
    sect,      \* the request running lines 27-52, and its local variables
    arrived,   \* history: the events of the requests answered 200, in order
    qres       \* the last tool call of the query process and what it returned

vars == <<file, clock, reqs, sect, arrived, qres>>

----------------------------------------------------------------------------
(* Bounds of the model.                                                    *)

MaxReqs == 2        \* webhook requests in a run of Spec
MaxClock == 1       \* ticks of the clock in a run of Spec
MaxCapReqs == 102   \* webhook requests in a run of SpecCap
MaxLog == 3         \* length of the logs the status queries are applied to
MaxRecentLog == 4   \* length of the logs the recent-events queries are applied to
MaxStamp == 3       \* distinct timestamps in those logs

----------------------------------------------------------------------------
(* JSON documents, as Python's json module hands them to the code.         *)

JNull == [t |-> "null"]
JNum(n) == [t |-> "num", v |-> n]
JStr(s) == [t |-> "str", s |-> s]
JObj(f) == [t |-> "obj", f |-> f]
EmptyObj == JObj(<<>>)

\* x.get(k, d) of a dict x
DictGet(x, k, d) == IF k \in DOMAIN x.f THEN x.f[k] ELSE d

\* whether x has a .get at all: a dict has, any other JSON value raises
\* AttributeError
HasGet(x) == x.t = "obj"

\* Python's truth value of a JSON value ("if not name")
Truthy(x) ==
    CASE x.t = "null" -> FALSE
      [] x.t = "num" -> x.v # 0
      [] x.t = "str" -> x.s # ""
      [] x.t = "obj" -> DOMAIN x.f # {}
      [] OTHER -> TRUE

----------------------------------------------------------------------------
(* Texts: a request body and the content of the store file.  A text is a   *)
(* sequence of tokens; json.dump writes an array as "[", its items, "]".   *)

LBracket == [tok |-> "["]
RBracket == [tok |-> "]"]
ItemTok(e) == [tok |-> "item", item |-> e]
ValueTok(x) == [tok |-> "value", value |-> x]
JunkTok(s) == [tok |-> "junk", chars |-> s]

\* json.dump(events, f, indent=2): the text of a list of events
JsonDump(events) ==
    <<LBracket>> \o [i \in 1..Len(events) |-> ItemTok(events[i])] \o <<RBracket>>

IsArrayText(text) ==
    /\ Len(text) >= 2
    /\ text[1] = LBracket
    /\ text[Len(text)] = RBracket
    /\ \A i \in 2..(Len(text) - 1) : text[i].tok = "item"

IsValueText(text) == Len(text) = 1 /\ text[1].tok = "value"

\* json.loads / json.load: the document a text denotes, or JSONDecodeError
\* (an empty text, a truncated array, anything that is not one document).
JsonLoads(text) ==
    IF IsArrayText(text)
    THEN [ok |-> TRUE, list |-> [i \in 1..(Len(text) - 2) |-> text[i + 1].item]]
    ELSE IF IsValueText(text)
    THEN [ok |-> TRUE, value |-> text[1].value]
    ELSE [ok |-> FALSE]

----------------------------------------------------------------------------
(* The store file.                                                         *)

Absent == [exists |-> FALSE]
OnDisk(text) == [exists |-> TRUE, text |-> text]

\* a file left behind by a writer that died between open(..., 'w') and
\* close: "[" and nothing after it
TruncatedText == <<LBracket>>

----------------------------------------------------------------------------
(* handle_webhook                                                          *)

\* lines 39-42 with the failure swallowed: an unreadable store counts as empty
LoadEventsOrEmpty(f) ==
    IF f.exists /\ JsonLoads(f.text).ok THEN JsonLoads(f.text)
    ELSE [ok |-> TRUE, list |-> <<>>]

\* lines 39-42: no file is the empty list; a file is read with json.load,
\* which raises JSONDecodeError on a text that is no document
LoadEvents(f) ==
    IF f.exists THEN JsonLoads(f.text) ELSE [ok |-> TRUE, list |-> <<>>]

KeepLast == 100

\* events[:100], the first 100 instead of the last
TrimHead(events) ==
    SubSeq(events, 1, IF Len(events) > KeepLast THEN KeepLast ELSE Len(events))

\* line 46, events[-100:]
Trim(events) ==
    SubSeq(events, IF Len(events) > KeepLast THEN Len(events) - KeepLast + 1 ELSE 1,
           Len(events))

GitHubEventHeader == "X-GitHub-Event"

\* request.headers.get("X-GitHub-Event", ""), the default left out
EventTypeNoDefault(headers) ==
    IF GitHubEventHeader \in DOMAIN headers THEN headers[GitHubEventHeader] ELSE ""

\* line 33, request.headers.get("X-GitHub-Event", "unknown")
EventType(headers) ==
    IF GitHubEventHeader \in DOMAIN headers THEN headers[GitHubEventHeader]
    ELSE "unknown"

\* the event record of lines 31-35
Event(now, headers, data) ==
    [timestamp |-> now, event_type |-> EventType(headers), payload |-> data]

NoResponse == [status |-> 0]
Received == [status |-> 200, json |-> [status |-> "received"]]
DecodeErrorResponse(body) ==
    [status |-> 400, json |-> [error |-> "JSON Decode Error", body_received |-> body]]

Idle == [pc |-> "idle"]

SetReq(i, pc, resp) == [reqs EXCEPT ![i].pc = pc, ![i].resp = resp]

Inflight == {i \in 1..Len(reqs) : reqs[i].pc # "done"}

\* lines 16-21: the handler starts and awaits the body; other handlers may
\* run until the body is there.
WebhookReceive(body, headers, maxReqs, maxInflight) ==
    /\ Len(reqs) < maxReqs
    /\ Cardinality(Inflight) < maxInflight
    /\ reqs' = Append(reqs, [body |-> body, headers |-> headers,
                             pc |-> "await", resp |-> NoResponse])
    /\ UNCHANGED <<file, clock, sect, arrived, qres>>

\* lines 27 and 53-56: the body is no JSON document
WebhookBadBody(i) ==
    /\ sect = Idle
    /\ reqs[i].pc = "await"
    /\ ~JsonLoads(reqs[i].body).ok
    /\ reqs' = SetReq(i, "done", DecodeErrorResponse(reqs[i].body))
    /\ UNCHANGED <<file, clock, sect, arrived, qres>>

\* lines 27-42 and 53-56: the store file exists and json.load(f) fails
WebhookBadStore(i) ==
    /\ sect = Idle
    /\ reqs[i].pc = "await"
    /\ JsonLoads(reqs[i].body).ok
    /\ ~LoadEvents(file).ok
    /\ reqs' = SetReq(i, "done", DecodeErrorResponse(reqs[i].body))
    /\ UNCHANGED <<file, clock, sect, arrived, qres>>

\* lines 27-46 with a suspension point between the load and the save (an
\* awaited write, say): while a request that has loaded the log waits,
\* another one runs its whole section, and the first then saves what it
\* had loaded
WebhookLoadInterleaved(i) ==
    /\ reqs[i].pc = "await"
    /\ JsonLoads(reqs[i].body).ok
    /\ LoadEvents(file).ok
    /\ LET data == JsonLoads(reqs[i].body).value
           event == Event(clock, reqs[i].headers, data)
           loaded == LoadEvents(file).list
       IN  IF sect = Idle
           THEN /\ sect' = [pc |-> "open", req |-> i, event |-> event,
                            existed |-> file.exists, loaded |-> loaded,
                            events |-> Trim(Append(loaded, event))]
                /\ reqs' = SetReq(i, "section", NoResponse)
                /\ UNCHANGED <<file, clock, arrived, qres>>
           ELSE /\ sect.pc = "open"
                /\ file' = OnDisk(JsonDump(Trim(Append(loaded, event))))
                /\ reqs' = SetReq(i, "done", Received)
                /\ arrived' = Append(arrived, event)
                /\ UNCHANGED <<clock, sect, qres>>

\* lines 27-46: the body parses, the event is built, the log is loaded,
\* the event appended and the list cut to its last 100
WebhookLoad(i) ==
    /\ sect = Idle
    /\ reqs[i].pc = "await"
    /\ JsonLoads(reqs[i].body).ok
    /\ LoadEvents(file).ok
    /\ LET data == JsonLoads(reqs[i].body).value
           event == Event(clock, reqs[i].headers, data)
           loaded == LoadEvents(file).list
       IN  sect' = [pc |-> "open", req |-> i, event |-> event,
                    existed |-> file.exists, loaded |-> loaded,
                    events |-> Trim(Append(loaded, event))]
    /\ reqs' = SetReq(i, "section", NoResponse)
    /\ UNCHANGED <<file, clock, arrived, qres>>

\* line 49: open(EVENTS_FILE, 'w') truncates the file
WebhookOpen ==
    /\ sect.pc = "open"
    /\ file' = OnDisk(<<>>)
    /\ sect' = [sect EXCEPT !.pc = "dump"]
    /\ UNCHANGED <<clock, reqs, arrived, qres>>

\* line 50: json.dump writes the text piece by piece; whenever the file
\* object's buffer is full the pieces written so far reach the disk
WebhookFlush ==
    /\ sect.pc = "dump"
    /\ \E n \in 1..(Len(JsonDump(sect.events)) - 1) :
          /\ n > Len(file.text)
          /\ file' = OnDisk(SubSeq(JsonDump(sect.events), 1, n))
    /\ UNCHANGED <<clock, reqs, sect, arrived, qres>>

\* lines 49-52: leaving the with block flushes the rest and closes the
\* file; the handler answers 200
WebhookClose ==
    /\ sect.pc = "dump"
    /\ file' = OnDisk(JsonDump(sect.events))
    /\ reqs' = SetReq(sect.req, "done", Received)
    /\ arrived' = Append(arrived, sect.event)
    /\ sect' = Idle
    /\ UNCHANGED <<clock, qres>>

\* datetime.now() never goes back
Tick ==
    /\ clock < MaxClock
    /\ clock' = clock + 1
    /\ UNCHANGED <<file, reqs, sect, arrived, qres>>

----------------------------------------------------------------------------
(* get_recent_actions_events                                               *)

DefaultLimit == 10

RECURSIVE SortedDesc(_)

\* the number of leading entries of a descending list that an entry with
\* timestamp ts goes behind: those with a timestamp >= ts
RECURSIVE Behind(_, _)
Behind(sorted, ts) ==
    IF sorted = <<>> \/ Head(sorted).timestamp < ts THEN 0
    ELSE 1 + Behind(Tail(sorted), ts)

InsertDesc(sorted, e) ==
    LET n == Behind(sorted, e.timestamp)
    IN  SubSeq(sorted, 1, n) \o <<e>> \o SubSeq(sorted, n + 1, Len(sorted))

\* events[::-1]: the log back to front, which is newest first as long as
\* no two events share a timestamp
RECURSIVE Reversed(_)
Reversed(events) ==
    IF events = <<>> THEN <<>>
    ELSE <<events[Len(events)]>> \o Reversed(SubSeq(events, 1, Len(events) - 1))

\* sorted(events, key=lambda x: x.get("timestamp", ""), reverse=True):
\* newest first, entries of equal timestamp in the order of the list
SortedDesc(events) ==
    IF events = <<>> THEN <<>>
    ELSE InsertDesc(SortedDesc(SubSeq(events, 1, Len(events) - 1)),
                    events[Len(events)])

\* list[:limit]: a negative limit counts from the end
SliceTo(list, limit) ==
    IF limit >= 0
    THEN SubSeq(list, 1, IF limit < Len(list) THEN limit ELSE Len(list))
    ELSE SubSeq(list, 1, IF Len(list) + limit > 0 THEN Len(list) + limit ELSE 0)

ListResult(items) == [kind |-> "list", items |-> items]
ErrorResult == [kind |-> "error", error |-> "Failed to read or parse events file"]
StatusResult(msg) == [kind |-> "status", status |-> msg]
NotFoundResult(name) ==
    [kind |-> "status", status |-> "No workflow runs found for", name |-> name]
MapResult(m) == [kind |-> "map", map |-> m]
Raised(exc) == [kind |-> "raise", exc |-> exc]

GetRecentActionsEvents(f, limit) ==
    IF ~f.exists THEN ListResult(<<>>)
    ELSE IF ~JsonLoads(f.text).ok THEN ErrorResult
    ELSE ListResult(SliceTo(SortedDesc(JsonLoads(f.text).list), limit))

----------------------------------------------------------------------------
(* get_workflow_status                                                     *)

\* lines 220-224: the payloads of the workflow_run events, in log order
WorkflowRuns(events) ==
    LET IsRun(e) == e.event_type = "workflow_run"
        runs == SelectSeq(events, IsRun)
    IN  [i \in 1..Len(runs) |-> runs[i].payload]

\* run.get("workflow", {}).get("name") raises AttributeError unless run and
\* run["workflow"] are dicts
NameRaises(run) ==
    \/ ~HasGet(run)
    \/ ~HasGet(DictGet(run, "workflow", EmptyObj))

RunName(run) == DictGet(DictGet(run, "workflow", EmptyObj), "name", JNull)

\* run.get("workflow_run", {}).get(...)
RunRaises(run) == ~HasGet(DictGet(run, "workflow_run", EmptyObj))

RunField(run, k) == DictGet(DictGet(run, "workflow_run", EmptyObj), k, JNull)

\* line 249, run_id > latest_statuses[name]["id"]: numbers compare, an
\* absent id (None) raises TypeError
CompareRaises(a, b) == a.t # "num" \/ b.t # "num"

\* run_id >= latest_statuses[name]["id"]: an equal id replaces too
GreaterOrEqual(a, b) == a.v >= b.v

\* line 249, run_id > latest_statuses[name]["id"] on two numbers
Greater(a, b) == a.v > b.v

\* lines 250-255
Snapshot(run) ==
    [id |-> RunField(run, "id"),
     status |-> RunField(run, "status"),
     conclusion |-> RunField(run, "conclusion"),
     timestamp |-> RunField(run, "updated_at")]

\* one turn of the loop of lines 240-255 on the statuses found so far
StatusStep(acc, run) ==
    IF acc.kind = "raise" THEN acc
    ELSE IF NameRaises(run) THEN Raised("AttributeError")
    ELSE IF ~Truthy(RunName(run)) THEN acc
    ELSE IF RunRaises(run) THEN Raised("AttributeError")
    ELSE LET name == RunName(run).s
             m == acc.map
         IN  IF name \notin DOMAIN m
             THEN MapResult((name :> Snapshot(run)) @@ m)
             ELSE IF CompareRaises(RunField(run, "id"), m[name].id)
             THEN Raised("TypeError")
             ELSE IF Greater(RunField(run, "id"), m[name].id)
             THEN MapResult((name :> Snapshot(run)) @@ m)
             ELSE acc

RECURSIVE LatestStatuses(_)
LatestStatuses(runs) ==
    IF runs = <<>> THEN MapResult(<<>>)
    ELSE StatusStep(LatestStatuses(SubSeq(runs, 1, Len(runs) - 1)), runs[Len(runs)])

\* lines 229-236: a given name keeps the runs of that workflow
NamedRuns(runs, name) ==
    LET Matches(run) == RunName(run) = name
    IN  SelectSeq(runs, Matches)

GetWorkflowStatus(f, name) ==
    IF ~f.exists THEN StatusResult("No events file found. No workflows to report.")
    ELSE IF ~JsonLoads(f.text).ok THEN ErrorResult
    ELSE LET runs == WorkflowRuns(JsonLoads(f.text).list)
         IN  IF runs = <<>> THEN StatusResult("No workflow run events found.")
             ELSE IF ~Truthy(name) THEN LatestStatuses(runs)
             ELSE IF \E i \in 1..Len(runs) : NameRaises(runs[i])
             THEN Raised("AttributeError")
             ELSE IF NamedRuns(runs, name) = <<>> THEN NotFoundResult(name.s)
             ELSE LatestStatuses(NamedRuns(runs, name))

----------------------------------------------------------------------------
(* The query process: one tool call reads the file as it is on disk.       *)

QueryRecent(limit) ==
    /\ qres' = [op |-> "recent", arg |-> limit, seen |-> file,
                during |-> sect # Idle,
                result |-> GetRecentActionsEvents(file, limit)]
    /\ UNCHANGED <<file, clock, reqs, sect, arrived>>

QueryStatus(name) ==
    /\ qres' = [op |-> "status", arg |-> name, seen |-> file,
                during |-> sect # Idle,
                result |-> GetWorkflowStatus(file, name)]
    /\ UNCHANGED <<file, clock, reqs, sect, arrived>>

----------------------------------------------------------------------------
(* Inputs of the model.                                                    *)

PushPayload == JObj([ref |-> JStr("main")])

\* a workflow_run notification as GitHub sends it: the workflow's name and
\* the run's id, status, conclusion and time of the last update
Conclusion(status) == IF status = "completed" THEN JStr("success") ELSE JNull
UpdatedAt(status) == IF status = "completed" THEN JStr("T2") ELSE JStr("T1")

WfRun(name, id, status) ==
    JObj([workflow |-> JObj([name |-> JStr(name)]),
          workflow_run |-> JObj([id |-> JNum(id), status |-> JStr(status),
                                 conclusion |-> Conclusion(status),
                                 updated_at |-> UpdatedAt(status)])])

\* the same without the run's id
WfRunNoId(name, status) ==
    JObj([workflow |-> JObj([name |-> JStr(name)]),
          workflow_run |-> JObj([status |-> JStr(status),
                                 conclusion |-> Conclusion(status),
                                 updated_at |-> UpdatedAt(status)])])

NoHeaders == <<>>
WithEventHeader(s) == (GitHubEventHeader :> s)

\* a JSON document, text that is no JSON, and the empty body
BodyTexts == {<<ValueTok(PushPayload)>>, <<JunkTok("not json")>>, <<>>}
HeaderSets == {NoHeaders, WithEventHeader("workflow_run")}

NoQuery == [op |-> "none"]

----------------------------------------------------------------------------
(* Spec: the webhook process and the query process side by side.           *)

Init ==
    /\ file \in {Absent, OnDisk(TruncatedText)}
    /\ clock = 0
    /\ reqs = <<>>
    /\ sect = Idle
    /\ arrived = <<>>
    /\ qres = NoQuery

Next ==
    \/ \E body \in BodyTexts, headers \in HeaderSets :
          WebhookReceive(body, headers, MaxReqs, MaxReqs)
    \/ \E i \in 1..Len(reqs) : WebhookBadBody(i)
    \/ \E i \in 1..Len(reqs) : WebhookBadStore(i)
    \/ \E i \in 1..Len(reqs) : WebhookLoad(i)
    \/ WebhookOpen
    \/ WebhookFlush
    \/ WebhookClose
    \/ Tick
    \/ QueryRecent(DefaultLimit)
    \/ QueryStatus(JNull)

Spec == Init /\ [][Next]_vars

----------------------------------------------------------------------------
(* SpecCap: one request after the other from an absent file and past the   *)
(* cap of 100.  The body of the n-th request is the number n; every other  *)
(* request comes without the X-GitHub-Event header.  The partial flushes   *)
(* of a write are left to Spec: they do not change what a write ends with. *)

CapBody(n) == <<ValueTok(JNum(n))>>
CapHeaders(n) == IF n % 2 = 1 THEN NoHeaders ELSE WithEventHeader("push")

InitCap ==
    /\ file = Absent
    /\ clock = 0
    /\ reqs = <<>>
    /\ sect = Idle
    /\ arrived = <<>>
    /\ qres = NoQuery

NextCap ==
    \/ WebhookReceive(CapBody(Len(reqs) + 1), CapHeaders(Len(reqs) + 1),
                      MaxCapReqs, 1)
    \/ \E i \in 1..Len(reqs) : WebhookLoad(i)
    \/ WebhookOpen
    \/ WebhookClose

SpecCap == InitCap /\ [][NextCap]_vars

----------------------------------------------------------------------------
(* SpecQuery: the two tools applied to the logs the webhook can leave.     *)

\* timestamps of a log: datetime.now() in arrival order, so never going
\* back, equal for events of the same instant
Stamps(n) ==
    {s \in [1..n -> 1..MaxStamp] : \A i \in 1..n, j \in 1..n : i <= j => s[i] <= s[j]}

\* logs whose events differ by their timestamps (the payload is the
\* position in the log)
RecentLogs ==
    UNION {{[i \in 1..n |-> [timestamp |-> s[i], event_type |-> "push",
                              payload |-> JNum(i)]] : s \in Stamps(n)}
           : n \in 0..MaxRecentLog}

\* what a status query tells apart in an event: its type and its payload
StatusKinds ==
    {[event_type |-> "push", payload |-> PushPayload],
     [event_type |-> "unknown", payload |-> WfRun("deploy", 7, "completed")],
     [event_type |-> "workflow_run", payload |-> JNum(7)],
     [event_type |-> "workflow_run", payload |-> PushPayload],
     [event_type |-> "workflow_run", payload |-> WfRun("deploy", 5, "completed")],
     [event_type |-> "workflow_run", payload |-> WfRun("deploy", 7, "in_progress")],
     [event_type |-> "workflow_run", payload |-> WfRun("deploy", 7, "completed")],
     [event_type |-> "workflow_run", payload |-> WfRun("test", 5, "completed")],
     [event_type |-> "workflow_run", payload |-> WfRunNoId("deploy", "completed")]}

StatusLogs ==
    UNION {{[i \in 1..n |-> [timestamp |-> i, event_type |-> k[i].event_type,
                              payload |-> k[i].payload]] : k \in [1..n -> StatusKinds]}
           : n \in 0..MaxLog}

Limits == (0 - MaxRecentLog)..(MaxRecentLog + 1) \cup {DefaultLimit}
Names == {JNull, JStr(""), JStr("deploy"), JStr("nonexistent")}

InitQuery ==
    /\ file \in {Absent, OnDisk(TruncatedText)}
                \cup {OnDisk(JsonDump(log)) : log \in RecentLogs \cup StatusLogs}
    /\ clock = 0
    /\ reqs = <<>>
    /\ sect = Idle
    /\ arrived = <<>>
    /\ qres = NoQuery

NextQuery ==
    \/ \E limit \in Limits : QueryRecent(limit)
    \/ \E name \in Names : QueryStatus(name)

SpecQuery == InitQuery /\ [][NextQuery]_vars

----------------------------------------------------------------------------
(* The store as the claims speak of it.                                    *)

\* the file holds a complete JSON array
Readable(f) == f.exists /\ JsonLoads(f.text).ok

\* the file exists and its text is no JSON document
Malformed(f) == f.exists /\ ~JsonLoads(f.text).ok

\* the log a readable file holds
StoredLog(f) == JsonLoads(f.text).list

WellFormedBody(body) == Len(body) = 1 /\ body[1].tok = "value"

----------------------------------------------------------------------------
(* C1: after N successful appends from an absent file the persisted log is *)
(* the last min(N, 100) appended events, oldest first: whenever the file   *)
(* holds a log its length is at most 100 and its entries are the tail of   *)
(* the history of appended events, and once a request has been answered    *)
(* 200 and no append is running the file holds such a log.                 *)
C1_CappedLog ==
    LET n == Len(arrived)
        k == IF n <= 100 THEN n ELSE 100
    IN  /\ Readable(file) =>
             /\ Len(StoredLog(file)) = k
             /\ Len(StoredLog(file)) <= 100
             /\ \A j \in 1..k : StoredLog(file)[j] = arrived[n - k + j]
        /\ (sect = Idle /\ n > 0) => Readable(file)

\* 102 appends are done: the log holds the events 3..102
C1_Witness ==
    /\ sect = Idle
    /\ Len(arrived) = 102
    /\ Readable(file)
    /\ Len(StoredLog(file)) = 100
    /\ StoredLog(file)[1].payload = JNum(3)
    /\ StoredLog(file)[100].payload = JNum(102)

----------------------------------------------------------------------------
(* C2: a POST with a well-formed body, the store absent or readable, is    *)
(* taken into the append (nothing is written by then), and when it is      *)
(* answered the answer is 200 {"status": "received"} and the file holds    *)
(* the log that was loaded plus one event at its end, cut from the front   *)
(* to 100 entries: the event's type is the X-GitHub-Event header or        *)
(* "unknown", its payload the parsed body, and every other entry is an     *)
(* entry of the loaded log, in its place.                                  *)
C2_AppendsOneEvent ==
    [][\A i \in 1..Len(reqs) :
        /\ (/\ reqs[i].pc = "await"
            /\ reqs'[i].pc # "await"
            /\ WellFormedBody(reqs[i].body)
            /\ ~Malformed(file))
           => /\ reqs'[i].pc = "section"
              /\ file' = file
              /\ sect'.loaded = IF file.exists THEN StoredLog(file) ELSE <<>>
        /\ (reqs[i].pc = "section" /\ reqs'[i].pc = "done")
           => /\ reqs'[i].resp = [status |-> 200, json |-> [status |-> "received"]]
              /\ Readable(file')
              /\ LET old == sect.loaded
                     new == StoredLog(file')
                     cut == Len(old) + 1 - Len(new)
                     added == new[Len(new)]
                 IN  /\ Len(new) = IF Len(old) + 1 <= 100 THEN Len(old) + 1 ELSE 100
                     /\ added.event_type =
                           IF "X-GitHub-Event" \in DOMAIN reqs[i].headers
                           THEN reqs[i].headers["X-GitHub-Event"] ELSE "unknown"
                     /\ added.payload = reqs[i].body[1].value
                     /\ added.timestamp <= clock
                     /\ \A k \in 1..(Len(new) - 1) : new[k] = old[k + cut]
      ]_vars

\* the 101st request, without the header, has been answered 200: its
\* event, of type "unknown", ends a log of 100 that lost its first entry
C2_Witness ==
    /\ Len(reqs) = 101
    /\ reqs[101].pc = "done"
    /\ reqs[101].resp.status = 200
    /\ reqs[101].headers = NoHeaders
    /\ Readable(file)
    /\ Len(StoredLog(file)) = 100
    /\ StoredLog(file)[100].event_type = "unknown"
    /\ StoredLog(file)[100].payload = reqs[101].body[1].value
    /\ StoredLog(file)[99].event_type = "push"
    /\ StoredLog(file)[1].payload = JNum(2)

----------------------------------------------------------------------------
(* C3: a request whose body is no JSON, or that finds a malformed store    *)
(* file, is answered 400 with the error; a request answered 400 leaves the *)
(* file as it was and appends nothing; for a malformed body the answer     *)
(* carries the raw body as body_received.                                  *)
C3_FailureLeavesStore ==
    [][\A i \in 1..Len(reqs) :
        /\ (/\ reqs[i].pc = "await"
            /\ reqs'[i].pc # "await"
            /\ (~WellFormedBody(reqs[i].body) \/ Malformed(file)))
           => /\ reqs'[i].pc = "done"
              /\ reqs'[i].resp.status = 400
              /\ "error" \in DOMAIN reqs'[i].resp.json
        /\ (reqs[i].pc # "done" /\ reqs'[i].pc = "done" /\ reqs'[i].resp.status = 400)
           => /\ file' = file
              /\ arrived' = arrived
              /\ ~WellFormedBody(reqs[i].body)
                    => reqs'[i].resp.json.body_received = reqs[i].body
      ]_vars

\* two requests were answered 400, one for its body and one, its body
\* well-formed, for the malformed store, which is still as it was
C3_Witness ==
    /\ file = OnDisk(TruncatedText)
    /\ arrived = <<>>
    /\ \E i, j \in 1..Len(reqs) :
          /\ reqs[i].pc = "done" /\ reqs[i].resp.status = 400
          /\ ~WellFormedBody(reqs[i].body)
          /\ reqs[j].pc = "done" /\ reqs[j].resp.status = 400
          /\ WellFormedBody(reqs[j].body)

----------------------------------------------------------------------------
(* C4: a query that runs while an append is between its load and its close *)
(* never sees an empty, truncated or partly written file: the file it      *)
(* reads is absent or holds a complete log.                                *)
C4_AppendIsAtomic ==
    (qres.op # "none" /\ qres.during)
        => (~qres.seen.exists \/ JsonLoads(qres.seen.text).ok)

----------------------------------------------------------------------------
(* The log as the query claims speak of it.                                *)

\* the log the last query read
SeenLog == StoredLog(qres.seen)

\* a payload with a workflow name a snapshot can be filed under
HasWorkflowName(p) ==
    /\ p.t = "obj"
    /\ "workflow" \in DOMAIN p.f
    /\ p.f.workflow.t = "obj"
    /\ "name" \in DOMAIN p.f.workflow.f
    /\ p.f.workflow.f.name.t = "str"
    /\ p.f.workflow.f.name.s # ""

\* a payload with the nested workflow-run fields
HasRunFields(p) ==
    /\ p.t = "obj"
    /\ "workflow_run" \in DOMAIN p.f
    /\ p.f.workflow_run.t = "obj"

HasRunId(p) ==
    /\ HasRunFields(p)
    /\ "id" \in DOMAIN p.f.workflow_run.f
    /\ p.f.workflow_run.f.id.t = "num"

NameOf(p) == p.f.workflow.f.name.s
IdOf(p) == p.f.workflow_run.f.id.v

\* the positions in the log of the workflow_run events of workflow n
RunsOf(log, n) ==
    {i \in 1..Len(log) : /\ log[i].event_type = "workflow_run"
                         /\ HasWorkflowName(log[i].payload)
                         /\ NameOf(log[i].payload) = n}

\* the workflow names a status query with argument arg is about
NamesAsked(log, arg) ==
    {NameOf(log[i].payload) :
        i \in {j \in 1..Len(log) : /\ log[j].event_type = "workflow_run"
                                   /\ HasWorkflowName(log[j].payload)
                                   /\ (arg.t = "str" /\ arg.s # "")
                                         => NameOf(log[j].payload) = arg.s}}

\* every workflow_run event of the log is an object, carries its run
\* fields and, when it has a workflow name, a numeric run id
WellShapedRuns(log) ==
    \A i \in 1..Len(log) :
        log[i].event_type = "workflow_run"
            => /\ log[i].payload.t = "obj"
               /\ HasWorkflowName(log[i].payload) => HasRunId(log[i].payload)

\* position j comes before position i in the order "timestamp descending,
\* equal timestamps in log order"
ComesBefore(log, j, i) ==
    \/ log[j].timestamp > log[i].timestamp
    \/ (log[j].timestamp = log[i].timestamp /\ j < i)

\* the entry of rank r in that order
Ranked(log, r) ==
    log[CHOOSE i \in 1..Len(log) :
            Cardinality({j \in 1..Len(log) : ComesBefore(log, j, i)}) = r - 1]

----------------------------------------------------------------------------
----------------------------------------------------------------------------
(* C6: for 0 < limit <= length of the log, get_recent_actions_events       *)
(* returns limit entries, the first limit of the log in the order          *)
(* "timestamp descending, equal timestamps in log order"; on a log of      *)
(* distinct rising timestamps t1 < ... < tk, limit 3 returns the entries   *)
(* of tk, tk-1, tk-2.                                                      *)
C6_RecentSorted ==
    (/\ qres.op = "recent"
     /\ Readable(qres.seen)
     /\ 0 < qres.arg
     /\ qres.arg <= Len(SeenLog)) =>
        /\ qres.result.kind = "list"
        /\ Len(qres.result.items) = qres.arg
        /\ \A r \in 1..qres.arg : qres.result.items[r] = Ranked(SeenLog, r)
        /\ (/\ qres.arg = 3
            /\ \A i \in 1..(Len(SeenLog) - 1) :
                  SeenLog[i].timestamp < SeenLog[i + 1].timestamp)
           => qres.result.items = <<SeenLog[Len(SeenLog)],
                                    SeenLog[Len(SeenLog) - 1],
                                    SeenLog[Len(SeenLog) - 2]>>

\* a log with timestamps 1, 1, 2, 2 asked for 3: the newer pair in log
\* order, then the first of the older pair
C6_Witness ==
    /\ qres.op = "recent"
    /\ qres.arg = 3
    /\ Readable(qres.seen)
    /\ Len(SeenLog) = 4
    /\ SeenLog[1].timestamp = 1 /\ SeenLog[2].timestamp = 1
    /\ SeenLog[3].timestamp = 2 /\ SeenLog[4].timestamp = 2
    /\ qres.result.kind = "list"
    /\ qres.result.items = <<SeenLog[3], SeenLog[4], SeenLog[1]>>

----------------------------------------------------------------------------
(* C7: for limit <= 0 or limit greater than the length of the log,         *)
(* get_recent_actions_events returns every event of the log, newest first, *)
(* and no error.                                                           *)
C7_LimitOutOfRange ==
    (/\ qres.op = "recent"
     /\ Readable(qres.seen)
     /\ (qres.arg <= 0 \/ qres.arg > Len(SeenLog))) =>
        /\ qres.result.kind = "list"
        /\ Len(qres.result.items) = Len(SeenLog)
        /\ \A r \in 1..Len(SeenLog) : qres.result.items[r] = Ranked(SeenLog, r)

----------------------------------------------------------------------------
(* C8: when no event qualifies get_workflow_status returns an              *)
(* informational status, never an error or an empty mapping: with no store *)
(* file; "No workflow run events found." when no workflow_run event of the *)
(* log has the nested workflow name and workflow-run fields; "No workflow  *)
(* runs found for '<name>'." when the given name is the workflow name of   *)
(* no payload.                                                             *)
C8_NothingQualifies ==
    qres.op = "status" =>
        /\ ~qres.seen.exists => qres.result.kind = "status"
        /\ (/\ Readable(qres.seen)
            /\ \A i \in 1..Len(SeenLog) :
                  ~(/\ SeenLog[i].event_type = "workflow_run"
                    /\ HasWorkflowName(SeenLog[i].payload)
                    /\ HasRunFields(SeenLog[i].payload)))
           => qres.result = [kind |-> "status",
                             status |-> "No workflow run events found."]
        /\ (/\ Readable(qres.seen)
            /\ qres.arg.t = "str" /\ qres.arg.s # ""
            /\ \E i \in 1..Len(SeenLog) :
                  /\ SeenLog[i].event_type = "workflow_run"
                  /\ HasWorkflowName(SeenLog[i].payload)
                  /\ HasRunFields(SeenLog[i].payload)
            /\ RunsOf(SeenLog, qres.arg.s) = {})
           => qres.result = [kind |-> "status",
                             status |-> "No workflow runs found for",
                             name |-> qres.arg.s]

----------------------------------------------------------------------------
(* C9: on every log the webhook can leave get_workflow_status returns a    *)
(* result and raises nothing; a workflow_run event without a run id does   *)
(* not replace the entry of its workflow name.                             *)
C9_NeverRaises ==
    (qres.op = "status" /\ Readable(qres.seen)) =>
        /\ qres.result.kind # "raise"
        /\ qres.result.kind = "map" =>
              \A n \in DOMAIN qres.result.map :
                  (\E i \in RunsOf(SeenLog, n) : HasRunId(SeenLog[i].payload))
                      => qres.result.map[n].id.t = "num"

----------------------------------------------------------------------------
(* C10: of several workflow_run events of one workflow name with the same, *)
(* largest run id, the snapshot shows the status, conclusion and timestamp *)
(* of the one that arrived last.                                           *)
C10_LastArrivedStatus ==
    (qres.op = "status" /\ Readable(qres.seen) /\ qres.result.kind = "map") =>
        \A n \in DOMAIN qres.result.map :
            \A i \in RunsOf(SeenLog, n) :
                (/\ \A j \in RunsOf(SeenLog, n) :
                       /\ HasRunId(SeenLog[j].payload)
                       /\ IdOf(SeenLog[j].payload) <= IdOf(SeenLog[i].payload)
                       /\ IdOf(SeenLog[j].payload) = IdOf(SeenLog[i].payload) => j <= i)
                => /\ qres.result.map[n].status = RunField(SeenLog[i].payload, "status")
                   /\ qres.result.map[n].conclusion
                         = RunField(SeenLog[i].payload, "conclusion")
                   /\ qres.result.map[n].timestamp
                         = RunField(SeenLog[i].payload, "updated_at")

----------------------------------------------------------------------------
(* C11: with several webhook requests in flight in the one ingestion       *)
(* process no append is lost or duplicated.  At most one request is in the *)
(* load-append-trim-save section at a time, and once no request is in      *)
(* flight the file holds exactly one event for every request answered 200  *)
(* (type from its header, payload its parsed body; the cap of 100 is not   *)
(* reached here), in the order the sections ran, with timestamps that      *)
(* never go back along the log.                                            *)
C11_NoLostAppend ==
    LET answered == {i \in 1..Len(reqs) : reqs[i].resp.status = 200}
        running == {i \in 1..Len(reqs) : reqs[i].pc = "section"}
    IN  /\ Cardinality(running) <= 1
        /\ (sect # Idle) <=> (running # {})
        /\ sect # Idle => running = {sect.req}
        /\ (answered # {} /\ \A i \in 1..Len(reqs) : reqs[i].pc = "done") =>
              /\ Readable(file)
              /\ Len(StoredLog(file)) = Cardinality(answered)
              /\ Len(StoredLog(file)) <= 100
              /\ StoredLog(file) = arrived
              /\ \E p \in [1..Len(StoredLog(file)) -> answered] :
                    /\ \A k, l \in 1..Len(StoredLog(file)) : p[k] = p[l] => k = l
                    /\ \A k \in 1..Len(StoredLog(file)) :
                          /\ StoredLog(file)[k].payload = reqs[p[k]].body[1].value
                          /\ StoredLog(file)[k].event_type =
                                IF "X-GitHub-Event" \in DOMAIN reqs[p[k]].headers
                                THEN reqs[p[k]].headers["X-GitHub-Event"]
                                ELSE "unknown"
              /\ \A k \in 1..(Len(StoredLog(file)) - 1) :
                    StoredLog(file)[k].timestamp <= StoredLog(file)[k + 1].timestamp

\* two requests were in flight together: the one that arrived second ran
\* its section first, a tick of the clock before the other, and both were
\* answered 200
C11_Witness ==
    /\ Len(reqs) = 2
    /\ reqs[1].pc = "done" /\ reqs[1].resp.status = 200
    /\ reqs[2].pc = "done" /\ reqs[2].resp.status = 200
    /\ reqs[1].headers = NoHeaders
    /\ reqs[2].headers = WithEventHeader("workflow_run")
    /\ Readable(file)
    /\ Len(StoredLog(file)) = 2
    /\ StoredLog(file)[1].event_type = "workflow_run"
    /\ StoredLog(file)[2].event_type = "unknown"
    /\ StoredLog(file)[1].timestamp < StoredLog(file)[2].timestamp

====
